---- MODULE Spec2Model ----
(***************************************************************************)
(* Model of "1. Tokenizer/tokenizer.py": the regex pre-tokenizer, the      *)
(* vocabulary built from the corpus, and the word-level tokenizers         *)
(* SimpleTokenizerV1 and SimpleTokenizerV2.                                *)
(*                                                                         *)
(* A Python str is modelled as a sequence of one-character strings, so     *)
(* that splitting, stripping, joining and substitution are computed        *)
(* character by character as the regular expressions do.                   *)
(***************************************************************************)
EXTENDS Integers, Sequences, FiniteSets, TLC

\* Longest corpus (in pieces) in the wide-corpus part of Init.
MaxCorpusLen == 3
\* Longest text given to encode (in pieces) in the wide-text part of Init.
MaxTextLen == 3

----------------------------------------------------------------------------
\* Characters and strings

EOT == <<"<", "|", "e", "n", "d", "o", "f", "t", "e", "x", "t", "|", ">">>
UNK == <<"<", "|", "u", "n", "k", "|", ">">>

\* \s of the regular expressions, and the characters str.strip() removes
Whitespace == {" ", "\t", "\n", "\r", "\f"}

\* [,.:;?_!"()\'] of the split pattern
SplitPunct == {",", ".", ":", ";", "?", "_", "!", "\"", "(", ")", "'"}

\* [,.?!"()\'] of SimpleTokenizerV1.decode
DecodePunctV1 == {",", ".", "?", "!", "\"", "(", ")", "'"}

\* [,.:;?!"()\'] of SimpleTokenizerV2.decode
DecodePunctV2 == {",", ".", ":", ";", "?", "!", "\"", "(", ")", "'"}

\* Unicode code point of a character: the order str comparison uses
CodePoint(c) ==
  CASE c = "\t" -> 9   [] c = "\n" -> 10  [] c = "\f" -> 12  [] c = "\r" -> 13
    [] c = " "  -> 32  [] c = "!"  -> 33  [] c = "\"" -> 34  [] c = "'"  -> 39
    [] c = "("  -> 40  [] c = ")"  -> 41  [] c = ","  -> 44  [] c = "-"  -> 45
    [] c = "."  -> 46  [] c = ":"  -> 58  [] c = ";"  -> 59  [] c = "<"  -> 60
    [] c = ">"  -> 62  [] c = "?"  -> 63  [] c = "_"  -> 95  [] c = "a"  -> 97
    [] c = "d"  -> 100 [] c = "e"  -> 101 [] c = "f"  -> 102 [] c = "k"  -> 107
    [] c = "n"  -> 110 [] c = "o"  -> 111 [] c = "t"  -> 116 [] c = "u"  -> 117
    [] c = "x"  -> 120 [] c = "|"  -> 124

Range(s) == {s[i] : i \in 1..Len(s)}

RECURSIVE Concat(_)
\* "".join(list)
Concat(list) == IF list = <<>> THEN <<>> ELSE Head(list) \o Concat(Tail(list))

RECURSIVE StrLess(_, _)
\* s < t for two str: lexicographic by code point
StrLess(s, t) ==
  IF t = <<>> THEN FALSE
  ELSE IF s = <<>> THEN TRUE
  ELSE IF CodePoint(Head(s)) < CodePoint(Head(t)) THEN TRUE
  ELSE IF CodePoint(Head(s)) > CodePoint(Head(t)) THEN FALSE
  ELSE StrLess(Tail(s), Tail(t))

\* Variant: the element is appended where the enumeration left it
InsertUnsorted(x, s) == Append(s, x)

\* x put into the ascending list s after every element that is not above it
InsertSorted(x, s) ==
  LET k == Cardinality({i \in 1..Len(s) : ~StrLess(x, s[i])})
  IN  SubSeq(s, 1, k) \o <<x>> \o SubSeq(s, k + 1, Len(s))

RECURSIVE Sorted(_)
\* sorted(list): ascending, stable
Sorted(list) ==
  IF list = <<>> THEN <<>>
  ELSE InsertSorted(list[Len(list)], Sorted(SubSeq(list, 1, Len(list) - 1)))

RECURSIVE Enumerations(_)
\* The orders in which iterating a set may yield its elements
Enumerations(S) ==
  IF S = {} THEN {<<>>}
  ELSE UNION {{<<x>> \o p : p \in Enumerations(S \ {x})} : x \in S}

----------------------------------------------------------------------------
\* re.split(r'([,.:;?_!"()\']|--|\s)', text) and the strip/filter after it

\* Variant: the pattern lacks the -- alternative
MatchLenNoDash(text, i) ==
  IF text[i] \in SplitPunct THEN 1
  ELSE IF text[i] \in Whitespace THEN 1
  ELSE 0

\* Length of the match of ([,.:;?_!"()\']|--|\s) that starts at i, 0 if none
MatchLen(text, i) ==
  IF text[i] \in SplitPunct THEN 1
  ELSE IF i < Len(text) /\ text[i] = "-" /\ text[i + 1] = "-" THEN 2
  ELSE IF text[i] \in Whitespace THEN 1
  ELSE 0

RECURSIVE ReSplitFrom(_, _, _, _)
\* The scan of re.split: i is the search position, start the beginning of the
\* pending piece, acc the pieces and captured separators emitted so far
ReSplitFrom(text, i, start, acc) ==
  IF i > Len(text) THEN Append(acc, SubSeq(text, start, Len(text)))
  ELSE LET m == MatchLen(text, i)
       IN  IF m > 0
           THEN ReSplitFrom(text, i + m, i + m,
                            acc \o <<SubSeq(text, start, i - 1),
                                     SubSeq(text, i, i + m - 1)>>)
           ELSE ReSplitFrom(text, i + 1, start, acc)

ReSplit(text) == ReSplitFrom(text, 1, 1, <<>>)

RECURSIVE LStrip(_)
LStrip(s) == IF s # <<>> /\ Head(s) \in Whitespace THEN LStrip(Tail(s)) ELSE s

RECURSIVE RStrip(_)
RStrip(s) ==
  IF s # <<>> /\ s[Len(s)] \in Whitespace
  THEN RStrip(SubSeq(s, 1, Len(s) - 1)) ELSE s

\* item.strip()
Strip(item) == RStrip(LStrip(item))

\* Variant: the comprehension has no filter
StripOnly(parts) == [i \in 1..Len(parts) |-> Strip(parts[i])]

\* [item.strip() for item in parts if item.strip()]
StripFilter(parts) ==
  LET kept == SelectSeq(parts, LAMBDA item : Strip(item) # <<>>)
  IN  [i \in 1..Len(kept) |-> Strip(kept[i])]

\* The pre-tokenizer: split, then strip and drop the empty items
Preprocess(text) == StripFilter(ReSplit(text))

----------------------------------------------------------------------------
\* Vocabulary and tokenizer objects

\* {token: integer for integer, token in enumerate(tokens)}: a later
\* occurrence of a key overwrites the earlier one
DictFromEnumerate(tokens) ==
  [s \in Range(tokens) |->
     (CHOOSE i \in 1..Len(tokens) :
        /\ tokens[i] = s
        /\ \A j \in 1..Len(tokens) : tokens[j] = s => j <= i) - 1]

\* {i: s for s, i in vocab.items()}
InvertDict(vocab) ==
  [i \in {vocab[s] : s \in DOMAIN vocab} |->
     CHOOSE s \in DOMAIN vocab : vocab[s] = i]

\* SimpleTokenizerV1.__init__ / SimpleTokenizerV2.__init__
NewTokenizer(vocab) == [str_to_int |-> vocab, int_to_str |-> InvertDict(vocab)]

\* Variant: only the unknown token is appended
ExtendUnkOnly(tokens) == tokens \o <<UNK>>

\* all_tokens.extend(["<|endoftext|>", "<|unk|>"])
ExtendSpecial(tokens) == tokens \o <<EOT, UNK>>

NoIds == [ok |-> FALSE, ids |-> <<>>]

\* [self.str_to_int[s] for s in symbols]; a missing key raises KeyError
Lookup(str_to_int, symbols) ==
  IF \A i \in 1..Len(symbols) : symbols[i] \in DOMAIN str_to_int
  THEN [ok |-> TRUE, ids |-> [i \in 1..Len(symbols) |-> str_to_int[symbols[i]]]]
  ELSE NoIds

\* SimpleTokenizerV1.encode
EncodeV1(tok, text) == Lookup(tok.str_to_int, Preprocess(text))

\* Variant: no fallback, the symbols are looked up as they are
ReplaceNothing(str_to_int, symbols) == symbols

\* item if item in self.str_to_int else "<|unk|>"
ReplaceUnknown(str_to_int, symbols) ==
  [i \in 1..Len(symbols) |->
     IF symbols[i] \in DOMAIN str_to_int THEN symbols[i] ELSE UNK]

\* SimpleTokenizerV2.encode
EncodeV2(tok, text) ==
  Lookup(tok.str_to_int, ReplaceUnknown(tok.str_to_int, Preprocess(text)))

RECURSIVE Join(_, _)
\* sep.join(list)
Join(sep, list) ==
  IF list = <<>> THEN <<>>
  ELSE IF Len(list) = 1 THEN list[1]
  ELSE list[1] \o sep \o Join(sep, Tail(list))

RECURSIVE WhiteRunEnd(_, _)
\* Last index of the whitespace run of text that starts at i
WhiteRunEnd(text, i) ==
  IF i < Len(text) /\ text[i + 1] \in Whitespace
  THEN WhiteRunEnd(text, i + 1) ELSE i

RECURSIVE ReSubFrom(_, _, _)
\* re.sub(r'\s+([punct])', r'\1', text) from position i on
ReSubFrom(text, punct, i) ==
  IF i > Len(text) THEN <<>>
  ELSE IF text[i] \in Whitespace
       THEN LET j == WhiteRunEnd(text, i)
            IN  IF j < Len(text) /\ text[j + 1] \in punct
                THEN <<text[j + 1]>> \o ReSubFrom(text, punct, j + 2)
                ELSE <<text[i]>> \o ReSubFrom(text, punct, i + 1)
       ELSE <<text[i]>> \o ReSubFrom(text, punct, i + 1)

\* Variant: the substitution is left out
ReSubNothing(text, punct) == text

ReSub(text, punct) == ReSubFrom(text, punct, 1)

\* Variant: the symbols are joined with no separator
ConcatIds(int_to_str, ids) ==
  Concat([i \in 1..Len(ids) |-> int_to_str[ids[i]]])

\* " ".join([self.int_to_str[i] for i in ids])
JoinIds(int_to_str, ids) ==
  Join(<<" ">>, [i \in 1..Len(ids) |-> int_to_str[ids[i]]])

\* SimpleTokenizerV1.decode
DecodeV1(tok, ids) == ReSub(JoinIds(tok.int_to_str, ids), DecodePunctV1)

\* SimpleTokenizerV2.decode
DecodeV2(tok, ids) == ReSub(JoinIds(tok.int_to_str, ids), DecodePunctV2)

----------------------------------------------------------------------------
\* The inputs

RECURSIVE PieceSeqs(_, _)
\* The strings made of at most n pieces of P
PieceSeqs(P, n) ==
  IF n = 0 THEN {<<>>}
  ELSE LET shorter == PieceSeqs(P, n - 1)
       IN  shorter \cup {s \o p : s \in shorter, p \in P}

CorpusPieces == {<<"a">>, <<" ">>, <<",">>, <<"-">>, <<":">>, EOT, UNK}

TextPieces ==
  {<<"a">>, <<" ">>, <<"\n">>, <<",">>, <<":">>, <<"_">>, <<"-">>, EOT, UNK}

\* Corpora of three distinct symbols: a word and decode punctuation, hyphens
\* and the underscore, the special tokens' text
WordCorpus == <<"a", ",", " ", "a", ":">>
HyphenCorpus == <<"-", " ", "-", "-", "_", "-">>
SpecialCorpus == <<"a", " ">> \o UNK \o <<"\n">> \o EOT

FixedCorpora == {WordCorpus, HyphenCorpus, SpecialCorpus}

----------------------------------------------------------------------------
\* The program

VARIABLES raw_text, text, preprocessed, all_words, vocab, tokenizerV1,
          tokens, ids1, decoded1, all_tokens, tokenizerV2, ids2, decoded2,
          pc, second_run

vars == <<raw_text, text, preprocessed, all_words, vocab, tokenizerV1,
          tokens, ids1, decoded1, all_tokens, tokenizerV2, ids2, decoded2,
          pc, second_run>>

NoTokenizer == [str_to_int |-> <<>>, int_to_str |-> <<>>]

Init ==
  /\ \/ /\ raw_text \in PieceSeqs(CorpusPieces, MaxCorpusLen)
        /\ text = raw_text
     \/ /\ raw_text \in FixedCorpora
        /\ text \in PieceSeqs(TextPieces, MaxTextLen)
  /\ preprocessed = <<>>
  /\ all_words = <<>>
  /\ vocab = <<>>
  /\ tokenizerV1 = NoTokenizer
  /\ tokens = <<>>
  /\ ids1 = NoIds
  /\ decoded1 = <<>>
  /\ all_tokens = <<>>
  /\ tokenizerV2 = NoTokenizer
  /\ ids2 = NoIds
  /\ decoded2 = <<>>
  /\ pc = "start"
  /\ second_run = [v1 |-> <<>>, v2 |-> <<>>]

\* preprocessed = re.split(...); preprocessed = [item.strip() ...]
SplitCorpus ==
  /\ pc = "start"
  /\ preprocessed' = Preprocess(raw_text)
  /\ pc' = "split"
  /\ UNCHANGED <<raw_text, text, all_words, vocab, tokenizerV1, tokens, ids1,
                 decoded1, all_tokens, tokenizerV2, ids2, decoded2, second_run>>

\* all_words = sorted(set(preprocessed)); vocab = {token: integer ...}
BuildVocabV1 ==
  /\ pc = "split"
  /\ \E order \in Enumerations(Range(preprocessed)) :
       /\ all_words' = Sorted(order)
       /\ vocab' = DictFromEnumerate(Sorted(order))
  /\ pc' = "vocab1"
  /\ UNCHANGED <<raw_text, text, preprocessed, tokenizerV1, tokens, ids1,
                 decoded1, all_tokens, tokenizerV2, ids2, decoded2, second_run>>

\* tokenizer = SimpleTokenizerV1(vocab)
ConstructV1 ==
  /\ pc = "vocab1"
  /\ tokenizerV1' = NewTokenizer(vocab)
  /\ pc' = "tok1"
  /\ UNCHANGED <<raw_text, text, preprocessed, all_words, vocab, tokens, ids1,
                 decoded1, all_tokens, tokenizerV2, ids2, decoded2, second_run>>

\* ids = tokenizer.encode(text); KeyError leaves no ids
CallEncodeV1 ==
  /\ pc = "tok1"
  /\ tokens' = Preprocess(text)
  /\ ids1' = EncodeV1(tokenizerV1, text)
  /\ pc' = "enc1"
  /\ UNCHANGED <<raw_text, text, preprocessed, all_words, vocab, tokenizerV1,
                 decoded1, all_tokens, tokenizerV2, ids2, decoded2, second_run>>

\* decoded_text = tokenizer.decode(ids)
CallDecodeV1 ==
  /\ pc = "enc1"
  /\ ids1.ok
  /\ decoded1' = DecodeV1(tokenizerV1, ids1.ids)
  /\ pc' = "dec1"
  /\ UNCHANGED <<raw_text, text, preprocessed, all_words, vocab, tokenizerV1,
                 tokens, ids1, all_tokens, tokenizerV2, ids2, decoded2, second_run>>

\* all_tokens = sorted(list(set(preprocessed))); all_tokens.extend([...]);
\* vocab = {token: integer ...}
BuildVocabV2 ==
  /\ \/ pc = "dec1"
     \/ pc = "enc1" /\ ~ids1.ok
  /\ \E order \in Enumerations(Range(preprocessed)) :
       /\ all_tokens' = ExtendSpecial(Sorted(order))
       /\ vocab' = DictFromEnumerate(ExtendSpecial(Sorted(order)))
  /\ pc' = "vocab2"
  /\ UNCHANGED <<raw_text, text, preprocessed, all_words, tokenizerV1, tokens,
                 ids1, decoded1, tokenizerV2, ids2, decoded2, second_run>>

\* tokenizer = SimpleTokenizerV2(vocab)
ConstructV2 ==
  /\ pc = "vocab2"
  /\ tokenizerV2' = NewTokenizer(vocab)
  /\ pc' = "tok2"
  /\ UNCHANGED <<raw_text, text, preprocessed, all_words, vocab, tokenizerV1,
                 tokens, ids1, decoded1, all_tokens, ids2, decoded2, second_run>>

\* encoded_text = tokenizer.encode(text)
CallEncodeV2 ==
  /\ pc = "tok2"
  /\ ids2' = EncodeV2(tokenizerV2, text)
  /\ pc' = "enc2"
  /\ UNCHANGED <<raw_text, text, preprocessed, all_words, vocab, tokenizerV1,
                 tokens, ids1, decoded1, all_tokens, tokenizerV2, decoded2,
                 second_run>>

\* decoded_text = tokenizer.decode(tokenizer.encode(text))
CallDecodeV2 ==
  /\ pc = "enc2"
  /\ ids2.ok
  /\ decoded2' = DecodeV2(tokenizerV2, ids2.ids)
  /\ pc' = "done"
  /\ UNCHANGED <<raw_text, text, preprocessed, all_words, vocab, tokenizerV1,
                 tokens, ids1, decoded1, all_tokens, tokenizerV2, ids2, second_run>>

\* The script is run a second time on the same corpus: lines 29-46 and 82-85
\* build both vocabularies again, the set being enumerated in another order
RebuildVocab ==
  /\ pc = "done"
  /\ \E order \in Enumerations(Range(Preprocess(raw_text))) :
       second_run' = [v1 |-> DictFromEnumerate(Sorted(order)),
                      v2 |-> DictFromEnumerate(ExtendSpecial(Sorted(order)))]
  /\ pc' = "rebuilt"
  /\ UNCHANGED <<raw_text, text, preprocessed, all_words, vocab, tokenizerV1,
                 tokens, ids1, decoded1, all_tokens, tokenizerV2, ids2,
                 decoded2>>

Next ==
  \/ SplitCorpus
  \/ BuildVocabV1
  \/ ConstructV1
  \/ CallEncodeV1
  \/ CallDecodeV1
  \/ BuildVocabV2
  \/ ConstructV2
  \/ CallEncodeV2
  \/ CallDecodeV2
  \/ RebuildVocab

Spec == Init /\ [][Next]_vars

PcOrder == <<"start", "split", "vocab1", "tok1", "enc1", "dec1", "vocab2",
             "tok2", "enc2", "done", "rebuilt">>

TypeOK == pc \in Range(PcOrder)

----------------------------------------------------------------------------
\* Vocabulary used by the properties

V1Map == tokenizerV1.str_to_int
V2Map == tokenizerV2.str_to_int

\* SimpleTokenizerV1.encode succeeded and decode has just returned decoded1
DecodedV1 == pc = "dec1" /\ ids1.ok

\* Every symbol of the text is a key of the V2 vocabulary
AllKnownV2 == \A i \in 1..Len(tokens) : tokens[i] \in DOMAIN V2Map

AllBlank(t) == \A i \in 1..Len(t) : t[i] \in Whitespace

RemoveWhite(t) == SelectSeq(t, LAMBDA c : c \notin Whitespace)

RECURSIVE HyphensBefore(_, _)
\* Number of consecutive hyphens that end right before position i
HyphensBefore(t, i) ==
  IF i > 1 /\ t[i - 1] = "-" THEN 1 + HyphensBefore(t, i - 1) ELSE 0

\* Position i starts a leftmost, non-overlapping occurrence of "--"
DashStart(t, i) ==
  /\ i < Len(t)
  /\ t[i] = "-"
  /\ t[i + 1] = "-"
  /\ HyphensBefore(t, i) % 2 = 0

\* Length of the separator symbol that starts at i, 0 if none does
SepLen(t, i) ==
  IF t[i] \in SplitPunct THEN 1 ELSE IF DashStart(t, i) THEN 2 ELSE 0

\* t is written the way decode writes: single spaces between symbols, none
\* at the ends, and none before a character of punct
NormalForm(t, punct) ==
  \A i \in 1..Len(t) :
    /\ t[i] \in Whitespace =>
         /\ t[i] = " "
         /\ i > 1
         /\ i < Len(t)
         /\ t[i + 1] \notin (Whitespace \cup punct)
    /\ SepLen(t, i) > 0 =>
         /\ (i > 1 /\ t[i] \notin punct) => t[i - 1] = " "
         /\ i + SepLen(t, i) <= Len(t) =>
              (t[i + SepLen(t, i)] = " " \/ t[i + SepLen(t, i)] \in punct)

----------------------------------------------------------------------------
\* C1 as stated: decode(encode(T)) = T for every text T whose symbols are all
\* in the vocabulary, for SimpleTokenizerV1 and SimpleTokenizerV2.
RoundTrip ==
  /\ DecodedV1 => decoded1 = text
  /\ (pc = "done" /\ AllKnownV2) => decoded2 = text

\* C1 amended: for a text T whose symbols are all in the vocabulary,
\* decode(encode(T)) = T exactly when T is in the decoder's normal form
\* (single spaces between symbols, none at the ends, none before the
\* decoder's punctuation, no newline), for both tokenizers.
RoundTripNormalForm ==
  /\ DecodedV1 => (decoded1 = text <=> NormalForm(text, DecodePunctV1))
  /\ (pc = "done" /\ AllKnownV2) =>
       (decoded2 = text <=> NormalForm(text, DecodePunctV2))

RoundTripWitness ==
  /\ pc = "done"
  /\ ids1.ok
  /\ Len(tokens) >= 2
  /\ " " \in Range(text)
  /\ decoded1 = text
  /\ decoded2 = text

\* C2: when a symbol of the text is absent from the vocabulary, V1.encode
\* fails with no id list; V2.encode succeeds with the id of "<|unk|>" at
\* the position of each absent symbol and the symbol's own id elsewhere,
\* and decoding the unknown id gives the literal "<|unk|>".
UnknownHandling ==
  /\ (pc = "enc1" /\ \E i \in 1..Len(tokens) : tokens[i] \notin DOMAIN V1Map)
       => ids1 = NoIds
  /\ pc = "enc2" =>
       /\ ids2.ok
       /\ Len(ids2.ids) = Len(tokens)
       /\ \A i \in 1..Len(tokens) :
            ids2.ids[i] = IF tokens[i] \in DOMAIN V2Map
                          THEN V2Map[tokens[i]] ELSE V2Map[UNK]
       /\ DecodeV2(tokenizerV2, <<V2Map[UNK]>>) = UNK
  /\ (pc = "done" /\ Len(tokens) = 1 /\ ~AllKnownV2) => decoded2 = UNK

UnknownHandlingWitness ==
  /\ pc = "done"
  /\ ~ids1.ok
  /\ Len(tokens) >= 2
  /\ \E i, j \in 1..Len(tokens) :
       /\ tokens[i] \notin DOMAIN V2Map
       /\ tokens[j] \in DOMAIN V2Map
       /\ tokens[j] # UNK

IdsWellFormed(tok) ==
  LET m == tok.str_to_int
      N == Cardinality(DOMAIN m)
  IN  /\ \A s, t \in DOMAIN m : s # t => m[s] # m[t]
      /\ {m[s] : s \in DOMAIN m} = 0..(N - 1)
      /\ \A s, t \in Range(preprocessed) : StrLess(s, t) => m[s] < m[t]
      /\ DOMAIN tok.int_to_str = 0..(N - 1)
      /\ \A s \in DOMAIN m : tok.int_to_str[m[s]] = s

\* C4: for every corpus, also one that holds "<|endoftext|>" or "<|unk|>",
\* each symbol has a unique id, the ids are exactly 0..N-1, the corpus
\* symbols are numbered in sorted order, the two special tokens have the two
\* highest ids, and int_to_str is the exact inverse of str_to_int.
VocabIdAssignment ==
  /\ pc = "tok1" => IdsWellFormed(tokenizerV1)
  /\ pc = "tok2" =>
       /\ IdsWellFormed(tokenizerV2)
       /\ V2Map[EOT] = Cardinality(DOMAIN V2Map) - 2
       /\ V2Map[UNK] = Cardinality(DOMAIN V2Map) - 1

\* C5: building the vocabulary again from the same corpus gives the same
\* symbol-to-id maps, whatever order the set of symbols is enumerated in.
Determinism ==
  pc = "rebuilt" => second_run = [v1 |-> V1Map, v2 |-> V2Map]

DeterminismWitness ==
  /\ pc = "rebuilt"
  /\ Cardinality(DOMAIN V1Map) >= 3
  /\ second_run.v2 = V2Map

\* The split rule of C6 for a text t and its symbol sequence syms
SplitRuleHolds(t, syms) ==
  /\ \A k \in 1..Len(syms) :
       /\ syms[k] # <<>>
       /\ \A j \in 1..Len(syms[k]) : syms[k][j] \notin Whitespace
       /\ (\E j \in 1..Len(syms[k]) : syms[k][j] \in SplitPunct)
             => Len(syms[k]) = 1
       /\ (\E j \in 1..(Len(syms[k]) - 1) :
              syms[k][j] = "-" /\ syms[k][j + 1] = "-")
             => syms[k] = <<"-", "-">>
  /\ \A c \in SplitPunct :
       Cardinality({k \in 1..Len(syms) : syms[k] = <<c>>})
         = Cardinality({i \in 1..Len(t) : t[i] = c})
  /\ Cardinality({k \in 1..Len(syms) : syms[k] = <<"-", "-">>})
       = Cardinality({i \in 1..Len(t) : DashStart(t, i)})
  /\ Concat(syms) = RemoveWhite(t)

\* C6: the split returns no empty symbol and no symbol with whitespace,
\* every punctuation character as a symbol of its own, every leftmost "--"
\* as one symbol, and symbols whose concatenation is the text without its
\* whitespace.
SplitRule ==
  /\ pc = "split" => SplitRuleHolds(raw_text, preprocessed)
  /\ pc = "enc1" => SplitRuleHolds(text, tokens)

SplitRuleWitness ==
  /\ pc = "enc1"
  /\ \E i \in 1..Len(raw_text) : DashStart(raw_text, i)
  /\ \E i \in 1..Len(raw_text) : raw_text[i] \in Whitespace
  /\ \E i \in 1..Len(raw_text) : raw_text[i] \in SplitPunct
  /\ Len(preprocessed) >= 3
  /\ \E i \in 1..Len(text) : DashStart(text, i)
  /\ Len(tokens) >= 2

\* C8 as stated: the symbol sequence of the split, and the id list of
\* encode, always have at least one element.
NeverEmpty ==
  /\ pc = "split" => Len(preprocessed) >= 1
  /\ pc = "enc1" => Len(tokens) >= 1
  /\ pc = "enc2" => Len(ids2.ids) >= 1

\* C8 amended: the symbol sequence is empty exactly when the text is empty
\* or made only of whitespace; no symbol is empty, and encode returns one id
\* per symbol.
EmptyOnlyWhenBlank ==
  /\ pc = "split" => (Len(preprocessed) = 0 <=> AllBlank(raw_text))
  /\ pc = "enc1" =>
       /\ Len(tokens) = 0 <=> AllBlank(text)
       /\ \A k \in 1..Len(tokens) : tokens[k] # <<>>
       /\ ids1.ok => Len(ids1.ids) = Len(tokens)
  /\ pc = "enc2" => Len(ids2.ids) = Len(tokens)

EmptyOnlyWhenBlankWitness ==
  /\ pc = "enc2"
  /\ text # <<>>
  /\ AllBlank(text)
  /\ ids1.ok
  /\ ids1.ids = <<>>
  /\ ids2.ids = <<>>

\* C9: encoding the decoded text gives the ids again, for SimpleTokenizerV2
\* on every text and for SimpleTokenizerV1 whenever encode succeeded.
ReEncodeStable ==
  /\ pc = "done" => EncodeV2(tokenizerV2, decoded2) = ids2
  /\ DecodedV1 => EncodeV1(tokenizerV1, decoded1) = ids1

ReEncodeStableWitness ==
  /\ pc = "done"
  /\ ids1.ok
  /\ Len(tokens) >= 2
  /\ decoded1 # text
  /\ decoded1 # decoded2

\* C10: on every text that SimpleTokenizerV1.encode accepts,
\* SimpleTokenizerV2.encode over the extended vocabulary returns the same
\* ids, also when the corpus holds a special token's text.
V2ExtendsV1 ==
  (pc = "enc2" /\ ids1.ok) => ids2 = ids1
====
